---- MODULE Spec2Model ----
(***************************************************************************)
(* Model of the SRI hasher (src/index.js).                                 *)
(*                                                                         *)
(* Strings are sequences of one-character strings (or of longer opaque     *)
(* tokens where the code never looks inside them), so that split, pop,     *)
(* includes, toLowerCase and replace are computed as the code computes     *)
(* them.  JavaScript's undefined and null are the one-token sequences      *)
(* Undefined and Null, which are different from every string of the model. *)
(***************************************************************************)
EXTENDS Integers, Sequences, FiniteSets, TLC

VARIABLES mode, sriSet, errorAlert, resultCard, sriPre, sriTagPre,
          ops, started, running, owner, lastEnd, fn,
          copyBtn, copyWrites, copyTimers, copyBtnTimeoutIds, timerCount,
          copyClicks, secureContext,
          cacheStorage, workers, deployed, swFetch, fetchCount, lastResponse

\* the copy buttons, their clipboard writes and their timers
copyVars == <<copyBtn, copyWrites, copyTimers, copyBtnTimeoutIds, timerCount,
              copyClicks, secureContext>>

\* what the generate-hash handler and the pure functions never touch
\* the service worker: the caches of the origin, the versions of the worker,
\* and the fetch event in hand
swVars == <<cacheStorage, workers, deployed, swFetch, fetchCount, lastResponse>>

otherVars == <<copyVars, swVars>>

vars == <<mode, sriSet, errorAlert, resultCard, sriPre, sriTagPre,
          ops, started, running, owner, lastEnd, fn, otherVars>>

appVars == <<mode, sriSet, errorAlert, resultCard, sriPre, sriTagPre,
             ops, started, running, owner, lastEnd, otherVars>>

hashVars == <<mode, sriSet, errorAlert, resultCard, sriPre, sriTagPre,
              ops, started, running, owner, lastEnd, fn>>

----------------------------------------------------------------------------
(* Bounds *)

\* number of clicks on the hash button in one behaviour
MaxOps == 2

\* longest stem (the part before the last separator) of an enumerated name
MaxStem == 2

\* number of clicks on the copy buttons in one behaviour
MaxClicks == 3

\* number of versions of the service worker deployed in one behaviour
MaxVersions == 3

\* number of fetch events in one behaviour
MaxFetches == 2

----------------------------------------------------------------------------
(* Strings *)

Undefined == <<"<undefined>">>
Null == <<"<null>">>
EmptyStr == <<>>

Str_js == <<"j", "s">>
Str_css == <<"c", "s", "s">>
Str_wasm == <<"w", "a", "s", "m">>

UpperCase == <<"A", "B", "C", "D", "E", "F", "G", "H", "I", "J", "K", "L", "M",
               "N", "O", "P", "Q", "R", "S", "T", "U", "V", "W", "X", "Y", "Z">>
LowerCase == <<"a", "b", "c", "d", "e", "f", "g", "h", "i", "j", "k", "l", "m",
               "n", "o", "p", "q", "r", "s", "t", "u", "v", "w", "x", "y", "z">>

\* String.prototype.toLowerCase, one character
LowerChar(c) ==
    IF \E i \in DOMAIN UpperCase : UpperCase[i] = c
    THEN LowerCase[CHOOSE i \in DOMAIN UpperCase : UpperCase[i] = c]
    ELSE c

\* String.prototype.toLowerCase
toLowerCase(s) == [i \in DOMAIN s |-> LowerChar(s[i])]

\* String.prototype.includes for a one-character needle
includes(s, c) == \E i \in DOMAIN s : s[i] = c

\* s.split(c).pop(): what follows the last occurrence of c (all of s if none)
splitPop(s, c) ==
    LET idx == {i \in DOMAIN s : s[i] = c}
        last == IF idx = {} THEN 0 ELSE CHOOSE i \in idx : \A j \in idx : j <= i
    IN  SubSeq(s, last + 1, Len(s))

\* a JavaScript value used as a condition: null, undefined and '' are falsy
truthy(s) == s # Null /\ s # Undefined /\ s # EmptyStr

----------------------------------------------------------------------------
(* Allow-list and templates *)

Tpl_js == <<"<script src=\"", "{{source}}", "\" integrity=\"", "{{sri}}",
            "\" crossorigin=\"anonymous\"></script>">>
Tpl_css == <<"<link rel=\"stylesheet\" href=\"", "{{source}}", "\" integrity=\"",
             "{{sri}}", "\" crossorigin=\"anonymous\">">>

\* const EXT_MASTER: own keys and their templates
EXT_MASTER == [e \in {Str_js, Str_css} |->
                  IF e = Str_js THEN [tag |-> Tpl_js] ELSE [tag |-> Tpl_css]]

\* const ALLOWED_EXTENSIONS = Object.keys(EXT_MASTER)
ALLOWED_EXTENSIONS == DOMAIN EXT_MASTER

\* const validationSet
validationSet == [isValid |-> FALSE, extension |-> Undefined]

----------------------------------------------------------------------------
(* Extension resolver and validators *)

\* mutant of yieldExt: the extension keeps its letter case
yieldExtKeepsCase(str) ==
    LET s == IF str = Null \/ str = Undefined THEN EmptyStr ELSE str
    IN  IF ~includes(s, ".") THEN EmptyStr
        ELSE splitPop(s, ".")

\* inner arrow function yieldExt of getExtension
yieldExt(str) ==
    LET s == IF str = Null \/ str = Undefined THEN EmptyStr ELSE str
    IN  IF ~includes(s, ".") THEN EmptyStr
        ELSE toLowerCase(splitPop(s, "."))

\* URLSearchParams.get: the value of the key, or null
searchGet(url, k) == IF k = "file" THEN url.file ELSE url.filename

\* the loop over allowedKeys: the first truthy value, else the last one read
queryCandidate(url) ==
    IF truthy(searchGet(url, "file")) THEN searchGet(url, "file")
    ELSE searchGet(url, "filename")

\* mutant of getExtensionURL: the query keys are tried before the path
getExtensionURLQueryFirst(url) ==
    LET path == url.pathname
        last == splitPop(path, "/")
        candidate == queryCandidate(url)
    IN  IF ~truthy(last) THEN EmptyStr
        ELSE IF truthy(candidate) THEN yieldExt(candidate)
        ELSE IF includes(last, ".") THEN yieldExt(last)
        ELSE EmptyStr

\* getExtension(target) for target instanceof URL
getExtensionURL(url) ==
    LET path == url.pathname
        last == splitPop(path, "/")
    IN  IF ~truthy(last) THEN EmptyStr
        ELSE IF includes(last, ".")
        THEN LET fromPath == yieldExt(last)
             IN  IF truthy(fromPath) /\ fromPath # toLowerCase(path)
                 THEN fromPath
                 ELSE EmptyStr
        ELSE LET candidate == queryCandidate(url)
             IN  IF truthy(candidate) THEN yieldExt(candidate) ELSE EmptyStr

\* getExtension(target) for typeof target === 'string'
getExtensionStr(name) == yieldExt(name)

\* mutant of validateURL: the try/catch around new URL(u) is missing
validateURLNoCatch(u) ==
    IF ~u.parses
    THEN [threw |-> TRUE, ret |-> validationSet]
    ELSE IF u.protocol \notin {"http:", "https:"}
    THEN [threw |-> FALSE, ret |-> [validationSet EXCEPT !.isValid = FALSE]]
    ELSE LET ext == getExtensionURL(u)
         IN  IF ext \notin ALLOWED_EXTENSIONS
             THEN [threw |-> FALSE, ret |-> [validationSet EXCEPT !.isValid = FALSE]]
             ELSE [threw |-> FALSE, ret |-> [isValid |-> TRUE, extension |-> ext]]

\* validateURL(u): u.parses tells whether new URL(u) returns; threw tells
\* whether an exception leaves validateURL
validateURL(u) ==
    IF ~u.parses
    THEN [threw |-> FALSE, ret |-> [validationSet EXCEPT !.isValid = FALSE]]
    ELSE IF u.protocol \notin {"http:", "https:"}
    THEN [threw |-> FALSE, ret |-> [validationSet EXCEPT !.isValid = FALSE]]
    ELSE LET ext == getExtensionURL(u)
         IN  IF ext \notin ALLOWED_EXTENSIONS
             THEN [threw |-> FALSE, ret |-> [validationSet EXCEPT !.isValid = FALSE]]
             ELSE [threw |-> FALSE, ret |-> [isValid |-> TRUE, extension |-> ext]]

\* validateFile(file): file.present is false for a null file
validateFile(file) ==
    IF ~file.present \/ ~truthy(file.name)
    THEN [validationSet EXCEPT !.isValid = FALSE]
    ELSE LET ext == getExtensionStr(file.name)
         IN  IF ext \notin ALLOWED_EXTENSIONS
             THEN [validationSet EXCEPT !.isValid = FALSE]
             ELSE [isValid |-> TRUE, extension |-> ext]

----------------------------------------------------------------------------
(* Inputs of the pure functions *)

SeqsUpTo(S, n) == UNION {[1..k -> S] : k \in 0..n}

Stems == SeqsUpTo({"a", "."}, MaxStem)
Exts == {EmptyStr, Str_js, <<"J", "S">>, Str_css, <<"C", "s", "s">>, Str_wasm,
         <<"t", "x", "t">>}

\* file names and last path segments: stem, optional dot, extension
Names == {st \o sep \o e : st \in Stems, sep \in {EmptyStr, <<".">>}, e \in Exts}

Dirs == {<<"/">>, <<"/", "d", "/">>, <<"/", "v", ".", "1", "/">>}
Paths == {d \o n : d \in Dirs, n \in Names}

QueryValues == {Null, EmptyStr, <<"r", "e", "a", "d", "m", "e">>,
                <<"l", "i", "b", ".", "j", "s">>, <<"X", ".", "C", "S", "S">>,
                <<"a", "p", "p", ".", "w", "a", "s", "m">>}

\* a URL string, given with what new URL() makes of it
ParsedUrls == [parses : {TRUE}, protocol : {"https:", "http:", "ftp:"},
               pathname : Paths, file : QueryValues, filename : QueryValues]
UnparsedUrls == [parses : {FALSE}, protocol : {"", "https:"},
                 pathname : {EmptyStr, <<"/", "a", ".", "j", "s">>},
                 file : {Null, <<"l", "i", "b", ".", "j", "s">>}, filename : {Null}]
UrlInputs == ParsedUrls \cup UnparsedUrls

NoFile == [present |-> FALSE, name |-> EmptyStr, size |-> 0]
FileInputs == {NoFile} \cup [present : {TRUE}, name : Names, size : {0, 1}]

NoCall == [call |-> "none"]

----------------------------------------------------------------------------
(* Digest engine and tag synthesizer *)

RECURSIVE Join(_)
Join(s) == IF s = <<>> THEN "" ELSE Head(s) \o Join(Tail(s))

Alg_SHA256 == <<"S", "H", "A", "-", "2", "5", "6">>
Alg_SHA384 == <<"S", "H", "A", "-", "3", "8", "4">>
Alg_SHA512 == <<"S", "H", "A", "-", "5", "1", "2">>

\* mutant of algoToSriPrefix: the pattern is matched with regard to case
algoToSriPrefixCaseSensitive(algo) ==
    LET matches == /\ Len(algo) = 7
                   /\ SubSeq(algo, 1, 4) = <<"S", "H", "A", "-">>
                   /\ SubSeq(algo, 5, 7) \in {<<"2", "5", "6">>, <<"3", "8", "4">>,
                                              <<"5", "1", "2">>}
        algoBit == IF matches THEN SubSeq(algo, 5, 7) ELSE algo
    IN  <<"s", "h", "a">> \o algoBit \o <<"-">>

\* algoToSriPrefix(algo): replace(/^SHA\-(256|384|512)$/i, '$1') keeps the
\* digits of a matching identifier and leaves any other identifier as it is
algoToSriPrefix(algo) ==
    LET matches == /\ Len(algo) = 7
                   /\ toLowerCase(SubSeq(algo, 1, 4)) = <<"s", "h", "a", "-">>
                   /\ SubSeq(algo, 5, 7) \in {<<"2", "5", "6">>, <<"3", "8", "4">>,
                                              <<"5", "1", "2">>}
        algoBit == IF matches THEN SubSeq(algo, 5, 7) ELSE algo
    IN  <<"s", "h", "a">> \o algoBit \o <<"-">>

\* arrayBufferToBase64(await crypto.subtle.digest(algo, buf)): one token, a
\* function of the bytes and of the algorithm (whose name the platform reads
\* without regard to letter case)
arrayBufferToBase64(algo, buf) ==
    <<"base64(" \o Join(toLowerCase(algo)) \o "," \o buf \o ")">>

\* sriFromArrayBuffer(arrayBuffer, algo), once the digest has resolved
sriFromArrayBuffer(buf, algo) == algoToSriPrefix(algo) \o arrayBufferToBase64(algo, buf)

\* the replacement patterns of String.prototype.replace for a string pattern
RECURSIVE expandReplacement(_, _, _, _)
expandReplacement(repl, pat, before, after) ==
    IF repl = <<>> THEN <<>>
    ELSE LET h == Head(repl)
             t == expandReplacement(Tail(repl), pat, before, after)
         IN  CASE h = "$&" -> <<pat>> \o t
               [] h = "$$" -> <<"$">> \o t
               [] h = "$`" -> before \o t
               [] h = "$'" -> after \o t
               [] OTHER -> <<h>> \o t

\* String.prototype.replace(pat, repl): the first occurrence only
replace(s, pat, repl) ==
    LET idx == {i \in DOMAIN s : s[i] = pat}
    IN  IF idx = {} THEN s
        ELSE LET i == CHOOSE k \in idx : \A j \in idx : k <= j
                 before == SubSeq(s, 1, i - 1)
                 after == SubSeq(s, i + 1, Len(s))
             IN  before \o expandReplacement(repl, pat, before, after) \o after

\* mutant of makeHtmlTag: an unknown extension falls back to the script
\* template instead of throwing
makeHtmlTagDefaults(source, sri, extension) ==
    LET tag == IF extension \in DOMAIN EXT_MASTER THEN EXT_MASTER[extension].tag
               ELSE Tpl_js
    IN  [threw |-> FALSE,
         value |-> replace(replace(tag, "{{source}}", source), "{{sri}}", sri),
         message |-> EmptyStr]

\* makeHtmlTag(source, sri), reading the extension of the Result Store
makeHtmlTag(source, sri, extension) ==
    IF extension \notin DOMAIN EXT_MASTER
    THEN [threw |-> TRUE, value |-> Undefined,
          message |-> <<"Unknown extension: ">> \o
                      (IF extension = Undefined THEN <<"undefined">> ELSE extension)]
    ELSE LET tag == EXT_MASTER[extension].tag
         IN  [threw |-> FALSE,
              value |-> replace(replace(tag, "{{source}}", source), "{{sri}}", sri),
              message |-> EmptyStr]

\* mutant of initSriSet: the extension is left as it was
initSriSetKeepsExtension(store) ==
    [store EXCEPT !.sri = Undefined, !.sriTag = Undefined]

\* initSriSet(): every key of the store is set to undefined
initSriSet(store) == [k \in DOMAIN store |-> Undefined]

----------------------------------------------------------------------------
(* The page: inputs the user can give *)

Modes == {"fetch", "upload"}

Url_xjs == [text |-> <<"https://cdn.example/x.js">>, parses |-> TRUE,
            protocol |-> "https:", pathname |-> <<"/", "x", ".", "j", "s">>,
            file |-> Null, filename |-> Null, content |-> "bytes-of-x.js"]
Url_ycss == [text |-> <<" ", "https://cdn.example/y.css", " ">>, parses |-> TRUE,
             protocol |-> "https:", pathname |-> <<"/", "y", ".", "c", "s", "s">>,
             file |-> Null, filename |-> Null, content |-> "bytes-of-y.css"]
Url_bad == [text |-> <<"cdn.example/x.js">>, parses |-> FALSE, protocol |-> "",
            pathname |-> EmptyStr, file |-> Null, filename |-> Null, content |-> ""]
Url_blank == [text |-> <<" ">>, parses |-> FALSE, protocol |-> "",
              pathname |-> EmptyStr, file |-> Null, filename |-> Null, content |-> ""]
AppUrls == {Url_xjs, Url_ycss, Url_bad, Url_blank}

File_none == [present |-> FALSE, name |-> EmptyStr, size |-> 0, bytes |-> ""]
File_ajs == [present |-> TRUE, name |-> <<"a", ".", "j", "s">>, size |-> 1,
             bytes |-> "bytes-of-a.js"]
File_style == [present |-> TRUE, name |-> <<"s", "t", "y", "l", "e", ".", "c", "s", "s">>,
               size |-> 0, bytes |-> ""]
File_readme == [present |-> TRUE, name |-> <<"r", "e", "a", "d", "m", "e">>, size |-> 1,
                bytes |-> "bytes-of-readme"]
\* a script whose name holds the text of a placeholder
File_tpl == [present |-> TRUE, name |-> <<"{{sri}}", ".", "j", "s">>, size |-> 1,
             bytes |-> "bytes-of-tpl"]
AppFiles == {File_none, File_ajs, File_style, File_readme, File_tpl}

AppAlgos == {Alg_SHA256, Alg_SHA384}

ProbeStatuses == {200, 405}
FetchStatuses == {200, 404}

statusText(status) ==
    CASE status = 200 -> "OK"
      [] status = 404 -> "Not Found"
      [] status = 405 -> "Method Not Allowed"
      [] OTHER -> ""

\* mutant of responseOk: every response counts as ok
responseOkAlways(status) == status >= 0

\* Response.ok
responseOk(status) == status >= 200 /\ status <= 299

\* String.prototype.trim over tokens, " " being white space
RECURSIVE trimStart(_)
trimStart(s) == IF s # <<>> /\ Head(s) = " " THEN trimStart(Tail(s)) ELSE s
RECURSIVE trimEnd(_)
trimEnd(s) ==
    IF s # <<>> /\ s[Len(s)] = " " THEN trimEnd(SubSeq(s, 1, Len(s) - 1)) ELSE s
trim(s) == trimEnd(trimStart(s))

Msg_UrlRequired == <<"URL is required">>
Msg_InvalidUrl == <<"Invalid URL">>
Msg_Guidance == <<"May not be found or violates CORS policy. Please check URL or download the file and try uploading it.">>
Msg_FileRequired == <<"Upload file is required">>
Msg_InvalidFile == <<"Invalid upload file type">>
Msg_NullFile == <<"TypeError: Cannot read properties of null (reading 'arrayBuffer')">>
Msg_FetchThrew == <<"TypeError: Failed to fetch">>
Msg_ReadFailed == <<"NotReadableError">>
Msg_DigestFailed == <<"OperationError">>
Msg_FetchFailed(status) == <<"Fetch failed: ", ToString(status), " - ", statusText(status)>>

\* showAlert(msg) and hideAlert()
showAlert(msg) == [shown |-> TRUE, text |-> msg]
hideAlert == [shown |-> FALSE, text |-> EmptyStr]

\* what a request of the page met: a thrown error with its message, or a
\* response with its status and its content-type header (null when absent)
Thrown(msg) == [threw |-> TRUE, status |-> 0, contentType |-> Null, message |-> msg]
contentTypeOf(status) ==
    IF responseOk(status) THEN <<"text/javascript">> ELSE Null
Response(status) == [threw |-> FALSE, status |-> status,
                     contentType |-> contentTypeOf(status), message |-> EmptyStr]

NoVerdict == [readable |-> FALSE, status |-> 0, contentType |-> Null,
              reason |-> EmptyStr]

\* the locals of one invocation of the generate-hash click handler; pc is
\* where the invocation stands, reqs the network requests it has issued and
\* net what each of them met, in the same order
IdleOp == [pc |-> "idle", url |-> Url_blank, file |-> File_none,
           sriHash |-> Alg_SHA256, validate |-> validationSet,
           proveRes |-> NoVerdict, errMsg |-> Undefined, resBuffer |-> "",
           src |-> Undefined, startMode |-> "fetch", reqs |-> <<>>,
           net |-> <<>>]

OpIds == 1..MaxOps

Suspended == {"probeHead", "probeGet", "fetch", "body", "read", "digest"}
Ended == {"shown", "failed"}

NoOwner == [sri |-> 0, sriTag |-> 0, extension |-> 0, display |-> 0]

----------------------------------------------------------------------------
(* The copy buttons: what they hold *)

\* button.copy-btn, by the attribute its id names (copy-sri, copy-sri-tag)
CopyButtons == {"sri", "sri-tag"}

\* the html of a button: its label and the classes of the icon in it
Label_original == [label |-> "original", iconClasses |-> {}]
Label_copied == [label |-> "Copied!", iconClasses |-> {}]

\* $iFind().addClass(c)
addClass(html, c) == [html EXCEPT !.iconClasses = @ \cup {c}]

\* an entry of copyBtnTimeoutIds: never assigned, a timer id, or null
NoTimeoutId == [is |-> "undefined", id |-> 0]
TimeoutId(n) == [is |-> "id", id |-> n]
NullTimeoutId == [is |-> "null", id |-> 0]

\* const enableDuration (ms), the lead of the fade (ms), and both delays
\* counted in steps of the lead
enableDuration == 3000
fadeLead == 300
EnableTicks == enableDuration \div fadeLead
FadeTicks == (enableDuration - fadeLead) \div fadeLead

\* the page before any click on a copy button
copyIdle ==
    /\ copyBtn = [b \in CopyButtons |-> [disabled |-> FALSE, html |-> Label_original]]
    /\ copyWrites = [b \in CopyButtons |-> 0]
    /\ copyTimers = <<>>
    /\ copyBtnTimeoutIds = [b \in CopyButtons |-> NoTimeoutId]
    /\ timerCount = 0
    /\ copyClicks = 0

----------------------------------------------------------------------------
(* The service worker: what it holds *)

Versions == 1..MaxVersions

\* const SERVICE_CACHE_NAME of the worker built from version v
SERVICE_CACHE_NAME(v) == "sri-hasher-cache-" \o ToString(v)

CacheNames == {SERVICE_CACHE_NAME(v) : v \in Versions}

\* const SERVICE_FILES_TO_CACHE
SERVICE_FILES_TO_CACHE ==
    {"./", "./index.html", "./readme.html", "./index.js",
     "./reg-service-worker.js", "./sri-hasher.css", "./manifest.json",
     "./favicon.ico", "./resources/icon-256.png", "./resources/icon-512.png",
     "./vendor/bootstrap-5.3.8.min.css", "./vendor/bootstrap-5.3.8.min.js",
     "./vendor/jquery-3.7.1.min.js", "./vendor/jquery-ui-1.14.1.min.js",
     "./vendor/bootstrap-icons-1.13.1/bootstrap-icons.min.css",
     "./vendor/fonts/AtkinsonHyperlegibleMono-Regular.woff2",
     "./vendor/fonts/NotoSansJP-Regular.woff2",
     "./vendor/bootstrap-icons-1.13.1/fonts/bootstrap-icons.woff2"}

\* the requests of the fetch events: a cached file and another resource
Requests == {"./index.js", "https://cdn.example/x.js"}

NoCache == [present |-> FALSE, entries |-> {}]
NoWorker == [state |-> "none", keyList |-> {}, deleting |-> {}, attached |-> FALSE]
NoFetch == [step |-> "none", worker |-> 0, request |-> ""]
NoResponse == [worker |-> 0, request |-> "", from |-> "none", matched |-> FALSE]

\* the keys of the cache storage
keys(storage) == {n \in DOMAIN storage : storage[n].present}

\* the origin before any worker is registered
swIdle ==
    /\ cacheStorage = [n \in CacheNames |-> NoCache]
    /\ workers = [v \in Versions |-> NoWorker]
    /\ deployed = 0
    /\ swFetch = NoFetch
    /\ fetchCount = 0
    /\ lastResponse = NoResponse

----------------------------------------------------------------------------
(* The generate-hash click handler *)

NoEnd == [op |-> 0, pc |-> "idle", errMsg |-> Undefined, reqs |-> <<>>,
          readable |-> FALSE, startMode |-> "fetch", file |-> File_none,
          net |-> <<>>, proveRes |-> NoVerdict]

Init ==
    /\ mode = "fetch"
    /\ sriSet = [sri |-> Undefined, sriTag |-> Undefined, extension |-> Undefined]
    /\ errorAlert = hideAlert
    /\ resultCard = FALSE
    /\ sriPre = EmptyStr
    /\ sriTagPre = EmptyStr
    /\ ops = [o \in OpIds |-> IdleOp]
    /\ started = 0
    /\ running = 0
    /\ owner = NoOwner
    /\ lastEnd = NoEnd
    /\ fn = NoCall
    /\ copyIdle
    /\ secureContext = TRUE
    /\ swIdle

\* the invocation o goes on as op; when op has returned (shown or failed) its
\* locals are gone, and lastEnd records what the invocation that returned
\* last showed (errMsg), requested (reqs), met (net) and was given
settle(o, op) ==
    IF op.pc \in Ended
    THEN /\ ops' = [ops EXCEPT ![o] = [IdleOp EXCEPT !.pc = op.pc]]
         /\ lastEnd' = [op |-> o, pc |-> op.pc, errMsg |-> op.errMsg,
                        reqs |-> op.reqs, readable |-> op.proveRes.readable,
                        startMode |-> op.startMode, file |-> op.file,
                        net |-> op.net, proveRes |-> op.proveRes]
    ELSE /\ ops' = [ops EXCEPT ![o] = op]
         /\ UNCHANGED lastEnd

\* the try block down to its first await: the content fetch in fetch mode,
\* the read of the file in upload mode (a null file makes it throw at once).
\* The local the chosen branch never reads again (file, or url) is dropped.
contentStart(op, m) ==
    IF m = "fetch"
    THEN [op EXCEPT !.pc = "fetch", !.reqs = Append(@, "CONTENT"),
                    !.file = File_none]
    ELSE IF ~op.file.present
         THEN [op EXCEPT !.pc = "failed", !.errMsg = Msg_NullFile]
         ELSE [op EXCEPT !.pc = "read", !.url = Url_blank]

\* the handler from the click to the reading of the form
Click(o, u, f, a) ==
    /\ running = 0
    /\ o = started + 1
    /\ o \in OpIds
    /\ sriSet' = initSriSet(sriSet)
    /\ owner' = NoOwner
    /\ errorAlert' = hideAlert
    /\ resultCard' = FALSE
    /\ ops' = [ops EXCEPT ![o] = [IdleOp EXCEPT !.pc = "reset",
                                               !.url = [u EXCEPT !.text = trim(@)],
                                               !.file = f,
                                               !.sriHash = a,
                                               !.startMode = mode]]
    /\ started' = o
    /\ running' = o
    /\ UNCHANGED <<mode, sriPre, sriTagPre, lastEnd, fn, otherVars>>

\* mutant of gate: a valid URL goes to the content fetch without the probe
gateNoProbe(op, m) ==
    IF m = "fetch"
    THEN IF ~truthy(op.url.text)
         THEN [op EXCEPT !.pc = "failed", !.errMsg = Msg_UrlRequired]
         ELSE LET v == validateURL(op.url).ret
              IN  IF ~v.isValid
                  THEN [op EXCEPT !.pc = "failed", !.errMsg = Msg_InvalidUrl,
                                  !.validate = v]
                  ELSE contentStart([op EXCEPT !.validate = v], m)
    ELSE IF ~op.file.present \/ op.file.size = 0
         THEN [op EXCEPT !.pc = "failed", !.errMsg = Msg_FileRequired]
         ELSE LET v == validateFile(op.file)
              IN  IF ~v.isValid
                  THEN [op EXCEPT !.pc = "failed", !.errMsg = Msg_InvalidFile,
                                  !.validate = v]
                  ELSE contentStart([op EXCEPT !.validate = v], m)

\* mutant of gate: the size of the file is not looked at
gateNoSizeCheck(op, m) ==
    IF m = "fetch"
    THEN IF ~truthy(op.url.text)
         THEN [op EXCEPT !.pc = "failed", !.errMsg = Msg_UrlRequired]
         ELSE LET v == validateURL(op.url).ret
              IN  IF ~v.isValid
                  THEN [op EXCEPT !.pc = "failed", !.errMsg = Msg_InvalidUrl,
                                  !.validate = v]
                  ELSE [op EXCEPT !.pc = "probeHead", !.validate = v,
                                  !.reqs = <<"HEAD">>]
    ELSE IF ~op.file.present
         THEN [op EXCEPT !.pc = "failed", !.errMsg = Msg_FileRequired]
         ELSE LET v == validateFile(op.file)
              IN  IF ~v.isValid
                  THEN [op EXCEPT !.pc = "failed", !.errMsg = Msg_InvalidFile,
                                  !.validate = v]
                  ELSE contentStart([op EXCEPT !.validate = v], m)

\* the validation of the input, down to the first await or to the return
gate(op, m) ==
    IF m = "fetch"
    THEN IF ~truthy(op.url.text)
         THEN [op EXCEPT !.pc = "failed", !.errMsg = Msg_UrlRequired]
         ELSE LET v == validateURL(op.url).ret
              IN  IF ~v.isValid
                  THEN [op EXCEPT !.pc = "failed", !.errMsg = Msg_InvalidUrl,
                                  !.validate = v]
                  ELSE [op EXCEPT !.pc = "probeHead", !.validate = v,
                                  !.reqs = <<"HEAD">>]
    ELSE IF ~op.file.present \/ op.file.size = 0
         THEN [op EXCEPT !.pc = "failed", !.errMsg = Msg_FileRequired]
         ELSE LET v == validateFile(op.file)
              IN  IF ~v.isValid
                  THEN [op EXCEPT !.pc = "failed", !.errMsg = Msg_InvalidFile,
                                  !.validate = v]
                  ELSE contentStart([op EXCEPT !.validate = v], m)

Gate(o) ==
    /\ running = o
    /\ ops[o].pc = "reset"
    /\ LET new == gate(ops[o], mode)
           wroteExt == mode = "upload" /\ new.validate.isValid
       IN  /\ settle(o, new)
           /\ sriSet' = IF wroteExt
                        THEN [sriSet EXCEPT !.extension = new.validate.extension]
                        ELSE sriSet
           /\ owner' = IF wroteExt THEN [owner EXCEPT !.extension = o] ELSE owner
           /\ errorAlert' = IF new.pc = "failed" THEN showAlert(new.errMsg)
                            ELSE errorAlert
    /\ running' = 0
    /\ UNCHANGED <<mode, resultCard, sriPre, sriTagPre, started, fn, otherVars>>

\* the handler after probeCorsReadable returned readable: true
probeReadable(o, status) ==
    LET res == Response(status)
        op == [ops[o] EXCEPT !.proveRes = [readable |-> TRUE,
                                           status |-> res.status,
                                           contentType |-> res.contentType,
                                           reason |-> EmptyStr],
                             !.net = Append(@, res)]
        new == contentStart(op, mode)
    IN  /\ settle(o, new)
        /\ sriSet' = [sriSet EXCEPT !.extension = op.validate.extension]
        /\ owner' = [owner EXCEPT !.extension = o]
        /\ errorAlert' = IF new.pc = "failed" THEN showAlert(new.errMsg)
                         ELSE errorAlert
        /\ UNCHANGED <<mode, resultCard, sriPre, sriTagPre, started, running, fn, otherVars>>

\* mutant of HeadResponds: a HEAD answer outside 2xx is retried with GET
HeadRespondsRetries(o, status) ==
    /\ running = 0
    /\ ops[o].pc = "probeHead"
    /\ IF responseOk(status)
       THEN probeReadable(o, status)
       ELSE /\ ops' = [ops EXCEPT ![o].pc = "probeGet",
                                  ![o].reqs = Append(@, "GET"),
                                  ![o].net = Append(@, Response(status))]
            /\ UNCHANGED <<mode, sriSet, errorAlert, resultCard, sriPre, sriTagPre,
                           started, running, owner, lastEnd, fn, otherVars>>

\* the HEAD request of the probe is answered, with whatever status
HeadResponds(o, status) ==
    /\ running = 0
    /\ ops[o].pc = "probeHead"
    /\ probeReadable(o, status)

\* mutant of HeadThrows: no GET follows, the probe returns readable: false
HeadThrowsGivesUp(o) ==
    /\ running = 0
    /\ ops[o].pc = "probeHead"
    /\ LET e == Thrown(Msg_FetchThrew)
       IN  settle(o, [ops[o] EXCEPT !.pc = "failed",
                                    !.net = Append(@, e),
                                    !.proveRes = [readable |-> FALSE, status |-> 0,
                                                  contentType |-> Null,
                                                  reason |-> e.message],
                                    !.errMsg = Msg_Guidance])
    /\ mode' = "upload"
    /\ errorAlert' = showAlert(Msg_Guidance)
    /\ UNCHANGED <<sriSet, resultCard, sriPre, sriTagPre, started, running, owner, fn, otherVars>>

\* the HEAD request of the probe throws: the GET follows
HeadThrows(o) ==
    /\ running = 0
    /\ ops[o].pc = "probeHead"
    /\ ops' = [ops EXCEPT ![o].pc = "probeGet", ![o].reqs = Append(@, "GET"),
                          ![o].net = Append(@, Thrown(Msg_FetchThrew))]
    /\ UNCHANGED <<mode, sriSet, errorAlert, resultCard, sriPre, sriTagPre,
                   started, running, owner, lastEnd, fn, otherVars>>

\* the GET request of the probe is answered
GetResponds(o, status) ==
    /\ running = 0
    /\ ops[o].pc = "probeGet"
    /\ probeReadable(o, status)

\* the GET request throws too: readable: false, the guidance message, and the
\* click on the upload tab, whose shown.bs.tab handler sets mode
GetThrows(o) ==
    /\ running = 0
    /\ ops[o].pc = "probeGet"
    /\ LET e == Thrown(Msg_FetchThrew)
       IN  settle(o, [ops[o] EXCEPT !.pc = "failed",
                                    !.net = Append(@, e),
                                    !.proveRes = [readable |-> FALSE, status |-> 0,
                                                  contentType |-> Null,
                                                  reason |-> e.message],
                                    !.errMsg = Msg_Guidance])
    /\ mode' = "upload"
    /\ errorAlert' = showAlert(Msg_Guidance)
    /\ UNCHANGED <<sriSet, resultCard, sriPre, sriTagPre, started, running, owner, fn, otherVars>>

\* the catch block: showAlert(e.message), and the handler ends
caught(o, op, msg) ==
    /\ settle(o, [op EXCEPT !.pc = "failed", !.errMsg = msg])
    /\ errorAlert' = showAlert(msg)
    /\ UNCHANGED <<mode, sriSet, resultCard, sriPre, sriTagPre, started, running,
                   owner, fn, otherVars>>

\* fetchContent: the response arrives; a status outside 2xx makes it throw
FetchResponds(o, status) ==
    /\ running = 0
    /\ ops[o].pc = "fetch"
    /\ LET op == [ops[o] EXCEPT !.net = Append(@, Response(status))]
       IN  IF responseOk(status)
           THEN /\ ops' = [ops EXCEPT ![o] = [op EXCEPT !.pc = "body"]]
                /\ UNCHANGED <<mode, sriSet, errorAlert, resultCard, sriPre,
                               sriTagPre, started, running, owner, lastEnd, fn, otherVars>>
           ELSE caught(o, op, Msg_FetchFailed(status))

\* fetchContent: fetch() or response.arrayBuffer() rejects
FetchThrows(o) ==
    /\ running = 0
    /\ ops[o].pc \in {"fetch", "body"}
    /\ caught(o, IF ops[o].pc = "fetch"
                 THEN [ops[o] EXCEPT !.net = Append(@, Thrown(Msg_FetchThrew))]
                 ELSE ops[o],
              Msg_FetchThrew)

\* fetchContent returns the bytes; src = url; the digest is requested
BodyArrives(o) ==
    /\ running = 0
    /\ ops[o].pc = "body"
    /\ ops' = [ops EXCEPT ![o].pc = "digest",
                          ![o].resBuffer = ops[o].url.content,
                          ![o].src = ops[o].url.text]
    /\ UNCHANGED <<mode, sriSet, errorAlert, resultCard, sriPre, sriTagPre,
                   started, running, owner, lastEnd, fn, otherVars>>

\* file.arrayBuffer() resolves; src = file.name; the digest is requested
FileReadResolves(o) ==
    /\ running = 0
    /\ ops[o].pc = "read"
    /\ ops' = [ops EXCEPT ![o].pc = "digest",
                          ![o].resBuffer = ops[o].file.bytes,
                          ![o].src = ops[o].file.name]
    /\ UNCHANGED <<mode, sriSet, errorAlert, resultCard, sriPre, sriTagPre,
                   started, running, owner, lastEnd, fn, otherVars>>

\* file.arrayBuffer() rejects
FileReadRejects(o) ==
    /\ running = 0
    /\ ops[o].pc = "read"
    /\ caught(o, ops[o], Msg_ReadFailed)

\* crypto.subtle.digest resolves: the digest string is stored, the tag is
\* made from the extension the Result Store holds now, stored and displayed
DigestResolves(o) ==
    /\ running = 0
    /\ ops[o].pc = "digest"
    /\ LET sri == sriFromArrayBuffer(ops[o].resBuffer, ops[o].sriHash)
           t == makeHtmlTag(ops[o].src, sri, sriSet.extension)
       IN  IF t.threw
           THEN /\ sriSet' = [sriSet EXCEPT !.sri = sri]
                /\ owner' = [owner EXCEPT !.sri = o]
                /\ settle(o, [ops[o] EXCEPT !.pc = "failed", !.errMsg = t.message])
                /\ errorAlert' = showAlert(t.message)
                /\ UNCHANGED <<resultCard, sriPre, sriTagPre>>
           ELSE /\ sriSet' = [sriSet EXCEPT !.sri = sri, !.sriTag = t.value]
                /\ owner' = [owner EXCEPT !.sri = o, !.sriTag = o, !.display = o]
                /\ settle(o, [ops[o] EXCEPT !.pc = "shown"])
                /\ sriPre' = sri
                /\ sriTagPre' = t.value
                /\ resultCard' = TRUE
                /\ UNCHANGED errorAlert
    /\ UNCHANGED <<mode, started, running, fn, otherVars>>

\* crypto.subtle.digest rejects
DigestRejects(o) ==
    /\ running = 0
    /\ ops[o].pc = "digest"
    /\ caught(o, ops[o], Msg_DigestFailed)

\* the user shows the other tab: the shown.bs.tab handler
SwitchTab(m) ==
    /\ running = 0
    /\ m # mode
    /\ mode' = m
    /\ UNCHANGED <<sriSet, errorAlert, resultCard, sriPre, sriTagPre, ops, started,
                   running, owner, lastEnd, fn, otherVars>>

Next ==
    \/ \E o \in OpIds, u \in AppUrls, f \in AppFiles, a \in AppAlgos : Click(o, u, f, a)
    \/ \E o \in OpIds : Gate(o)
    \/ \E o \in OpIds, st \in ProbeStatuses : HeadResponds(o, st)
    \/ \E o \in OpIds : HeadThrows(o)
    \/ \E o \in OpIds, st \in ProbeStatuses : GetResponds(o, st)
    \/ \E o \in OpIds : GetThrows(o)
    \/ \E o \in OpIds, st \in FetchStatuses : FetchResponds(o, st)
    \/ \E o \in OpIds : FetchThrows(o)
    \/ \E o \in OpIds : BodyArrives(o)
    \/ \E o \in OpIds : FileReadResolves(o)
    \/ \E o \in OpIds : FileReadRejects(o)
    \/ \E o \in OpIds : DigestResolves(o)
    \/ \E o \in OpIds : DigestRejects(o)
    \/ \E m \in Modes : SwitchTab(m)

Spec == Init /\ [][Next]_vars

----------------------------------------------------------------------------
(* The pure functions, applied to every enumerated input *)

\* sources and digests given to makeHtmlTag: a source is a URL as typed or a
\* file name, and may hold the text of a placeholder or of a replacement
\* pattern
TagSources == {<<"https://cdn.example/lib.js">>,
               <<"https://cdn.example/a.js?x=", "$&">>,
               <<"a-", "{{sri}}", ".js">>,
               <<"$$", ".css">>,
               <<"$`", "$'", ".css">>}
TagDigests == {<<"sha384-ABC123">>, sriFromArrayBuffer("b1", Alg_SHA256)}
TagInputs == [source : TagSources, sri : TagDigests, extension : ALLOWED_EXTENSIONS]

\* buffers and algorithm identifiers given to sriFromArrayBuffer
DigestAlgos == {Alg_SHA256, Alg_SHA384, Alg_SHA512,
                toLowerCase(Alg_SHA256), toLowerCase(Alg_SHA384),
                toLowerCase(Alg_SHA512), <<"S", "h", "a", "-", "5", "1", "2">>}
DigestInputs == [buf : {"", "b1", "b2"}, algo : DigestAlgos]

FnInputs == [call : {"input"}, kind : {"url"}, in : UrlInputs]
            \cup [call : {"input"}, kind : {"file"}, in : FileInputs]
            \cup [call : {"input"}, kind : {"tag"}, in : TagInputs]
            \cup [call : {"input"}, kind : {"digest"}, in : DigestInputs]

InitFn ==
    /\ mode = "fetch"
    /\ sriSet = [sri |-> Undefined, sriTag |-> Undefined, extension |-> Undefined]
    /\ errorAlert = hideAlert
    /\ resultCard = FALSE
    /\ sriPre = EmptyStr
    /\ sriTagPre = EmptyStr
    /\ ops = [o \in OpIds |-> IdleOp]
    /\ started = 0
    /\ running = 0
    /\ owner = NoOwner
    /\ lastEnd = NoEnd
    /\ fn \in FnInputs
    /\ copyIdle
    /\ secureContext = TRUE
    /\ swIdle

\* getExtension(new URL(u)) or getExtension(file.name)
CallGetExtension ==
    /\ fn.call = "input"
    /\ fn.kind \in {"url", "file"}
    /\ fn.kind = "url" => fn.in.parses
    /\ fn.kind = "file" => fn.in.present
    /\ fn' = [call |-> "getExtension", kind |-> fn.kind, in |-> fn.in,
              out |-> IF fn.kind = "url" THEN getExtensionURL(fn.in)
                      ELSE getExtensionStr(fn.in.name)]
    /\ UNCHANGED appVars

CallValidateURL ==
    /\ fn.call = "input"
    /\ fn.kind = "url"
    /\ fn' = [call |-> "validateURL", kind |-> fn.kind, in |-> fn.in,
              out |-> validateURL(fn.in)]
    /\ UNCHANGED appVars

CallValidateFile ==
    /\ fn.call = "input"
    /\ fn.kind = "file"
    /\ fn' = [call |-> "validateFile", kind |-> fn.kind, in |-> fn.in,
              out |-> validateFile(fn.in)]
    /\ UNCHANGED appVars

\* makeHtmlTag(source, sri) with sriSet.extension holding a key of EXT_MASTER
CallMakeHtmlTag ==
    /\ fn.call = "input"
    /\ fn.kind = "tag"
    /\ fn' = [call |-> "makeHtmlTag", kind |-> fn.kind, in |-> fn.in,
              out |-> makeHtmlTag(fn.in.source, fn.in.sri, fn.in.extension)]
    /\ UNCHANGED appVars

\* await sriFromArrayBuffer(arrayBuffer, algo)
CallSriFromArrayBuffer ==
    /\ fn.call = "input"
    /\ fn.kind = "digest"
    /\ fn' = [call |-> "sriFromArrayBuffer", kind |-> fn.kind, in |-> fn.in,
              out |-> sriFromArrayBuffer(fn.in.buf, fn.in.algo)]
    /\ UNCHANGED appVars

NextFn ==
    \/ CallGetExtension
    \/ CallValidateURL
    \/ CallValidateFile
    \/ CallMakeHtmlTag
    \/ CallSriFromArrayBuffer

SpecFn == InitFn /\ [][NextFn]_vars

----------------------------------------------------------------------------
(* The copy buttons: the click handler, the clipboard write and the timers *)

InitCopy ==
    /\ mode = "fetch"
    /\ sriSet = [sri |-> Undefined, sriTag |-> Undefined, extension |-> Undefined]
    /\ errorAlert = hideAlert
    /\ resultCard = FALSE
    /\ sriPre = EmptyStr
    /\ sriTagPre = EmptyStr
    /\ ops = [o \in OpIds |-> IdleOp]
    /\ started = 0
    /\ running = 0
    /\ owner = NoOwner
    /\ lastEnd = NoEnd
    /\ fn = NoCall
    /\ copyIdle
    /\ secureContext \in BOOLEAN
    /\ swIdle

\* the then callback of copyToClipboard(text): the label of the button is
\* kept (btnLabelHtml), the button is disabled and shows Copied!, and the
\* two timers are set
copied(b) ==
    LET btnLabelHtml == copyBtn[b].html
    IN  /\ copyBtn' = [copyBtn EXCEPT ![b] = [disabled |-> TRUE,
                                              html |-> addClass(Label_copied, "btn-fade")]]
        /\ copyTimers' = copyTimers \o
               <<[attribute |-> b, kind |-> "fade", left |-> FadeTicks,
                  html |-> btnLabelHtml, id |-> timerCount + 1],
                 [attribute |-> b, kind |-> "reset", left |-> EnableTicks,
                  html |-> btnLabelHtml, id |-> timerCount + 2]>>
        /\ copyBtnTimeoutIds' = [copyBtnTimeoutIds EXCEPT
                                    ![b] = TimeoutId(timerCount + 2)]
        /\ timerCount' = timerCount + 2

\* a click on an enabled copy button: navigator.clipboard.writeText is
\* pending in a secure context; otherwise the fallback has copied and the
\* then callback runs before any other event
CopyClick(b) ==
    /\ ~copyBtn[b].disabled
    /\ copyClicks < MaxClicks
    /\ copyClicks' = copyClicks + 1
    /\ IF secureContext
       THEN /\ copyWrites' = [copyWrites EXCEPT ![b] = @ + 1]
            /\ UNCHANGED <<copyBtn, copyTimers, copyBtnTimeoutIds, timerCount>>
       ELSE /\ copied(b)
            /\ UNCHANGED copyWrites
    /\ UNCHANGED <<hashVars, swVars, secureContext>>

\* navigator.clipboard.writeText resolves
WriteResolves(b) ==
    /\ copyWrites[b] > 0
    /\ copyWrites' = [copyWrites EXCEPT ![b] = @ - 1]
    /\ copied(b)
    /\ UNCHANGED <<hashVars, swVars, copyClicks, secureContext>>

\* navigator.clipboard.writeText rejects: the catch callback only reports
WriteRejects(b) ==
    /\ copyWrites[b] > 0
    /\ copyWrites' = [copyWrites EXCEPT ![b] = @ - 1]
    /\ UNCHANGED <<hashVars, swVars, copyBtn, copyTimers, copyBtnTimeoutIds,
                   timerCount, copyClicks, secureContext>>

\* the timers whose delay has run out; they fire in the order they were set
due(i) == copyTimers[i].left = 0

\* the callback of the timer at place i of copyTimers
TimerFires(i) ==
    /\ i \in DOMAIN copyTimers
    /\ due(i)
    /\ \A j \in 1..(i - 1) : ~due(j)
    /\ LET t == copyTimers[i]
           b == t.attribute
       IN  IF t.kind = "fade"
           THEN /\ copyBtn' = [copyBtn EXCEPT ![b].html = addClass(@, "fade-out")]
                /\ UNCHANGED copyBtnTimeoutIds
           ELSE /\ copyBtn' = [copyBtn EXCEPT ![b] = [disabled |-> FALSE,
                                                      html |-> t.html]]
                /\ copyBtnTimeoutIds' = [copyBtnTimeoutIds EXCEPT ![b] = NullTimeoutId]
    /\ copyTimers' = SubSeq(copyTimers, 1, i - 1)
                        \o SubSeq(copyTimers, i + 1, Len(copyTimers))
    /\ UNCHANGED <<hashVars, swVars, copyWrites, timerCount, copyClicks,
                   secureContext>>

\* time passes while timers are set and none of them is due
Tick ==
    /\ copyTimers # <<>>
    /\ \A i \in DOMAIN copyTimers : ~due(i)
    /\ copyTimers' = [i \in DOMAIN copyTimers |->
                         [copyTimers[i] EXCEPT !.left = @ - 1]]
    /\ UNCHANGED <<hashVars, swVars, copyBtn, copyWrites, copyBtnTimeoutIds,
                   timerCount, copyClicks, secureContext>>

NextCopy ==
    \/ \E b \in CopyButtons : CopyClick(b)
    \/ \E b \in CopyButtons : WriteResolves(b)
    \/ \E b \in CopyButtons : WriteRejects(b)
    \/ \E i \in 1..(2 * MaxClicks) : TimerFires(i)
    \/ Tick

SpecCopy == InitCopy /\ [][NextCopy]_vars

----------------------------------------------------------------------------
(* The service worker: the install, activate and fetch listeners *)

\* the install event of the next version: caches.open(SERVICE_CACHE_NAME)
\* makes the cache, and cache.addAll is pending
InstallStarts(v) ==
    /\ v = deployed + 1
    /\ v \in Versions
    /\ \A u \in Versions : workers[u].state # "installing"
    /\ deployed' = v
    /\ cacheStorage' = [cacheStorage EXCEPT ![SERVICE_CACHE_NAME(v)] =
                            [present |-> TRUE, entries |-> {}]]
    /\ workers' = [workers EXCEPT ![v] = [NoWorker EXCEPT !.state = "installing",
                                                          !.attached = TRUE]]
    /\ UNCHANGED <<hashVars, copyVars, swFetch, fetchCount, lastResponse>>

\* cache.addAll(SERVICE_FILES_TO_CACHE) resolves: the files are in the cache
\* that was opened (which is no longer in the storage when it was deleted in
\* between), the worker is installed and replaces the one that waited
AddAllResolves(v) ==
    /\ workers[v].state = "installing"
    /\ cacheStorage' = IF workers[v].attached
                       THEN [cacheStorage EXCEPT ![SERVICE_CACHE_NAME(v)].entries =
                                                    SERVICE_FILES_TO_CACHE]
                       ELSE cacheStorage
    /\ workers' = [u \in Versions |->
                      IF u = v THEN [workers[u] EXCEPT !.state = "installed"]
                      ELSE IF workers[u].state = "installed"
                           THEN [workers[u] EXCEPT !.state = "redundant"]
                           ELSE workers[u]]
    /\ UNCHANGED <<hashVars, copyVars, deployed, swFetch, fetchCount, lastResponse>>

\* cache.addAll rejects: the installation fails
AddAllRejects(v) ==
    /\ workers[v].state = "installing"
    /\ workers' = [workers EXCEPT ![v].state = "redundant"]
    /\ UNCHANGED <<hashVars, copyVars, cacheStorage, deployed, swFetch, fetchCount,
                   lastResponse>>

\* the activate event of an installed worker: caches.keys() is pending
ActivateStarts(v) ==
    /\ workers[v].state = "installed"
    /\ \A u \in Versions : workers[u].state \notin {"keys", "deleting"}
    /\ workers' = [u \in Versions |->
                      IF u = v THEN [workers[u] EXCEPT !.state = "keys"]
                      ELSE IF workers[u].state = "activated"
                           THEN [workers[u] EXCEPT !.state = "redundant"]
                           ELSE workers[u]]
    /\ UNCHANGED <<hashVars, copyVars, cacheStorage, deployed, swFetch, fetchCount,
                   lastResponse>>

\* mutant of staleKeys: every key is deleted
staleKeysAll(keyList, name) == {key \in keyList : key = key}

\* the keys for which the callback of keyList.map returns caches.delete(key)
staleKeys(keyList, name) == {key \in keyList : key # name}

\* caches.keys() resolves: a delete is requested for every stale key
KeysResolve(v) ==
    /\ workers[v].state = "keys"
    /\ LET keyList == keys(cacheStorage)
       IN  workers' = [workers EXCEPT
                          ![v].state = "deleting",
                          ![v].keyList = keyList,
                          ![v].deleting = staleKeys(keyList, SERVICE_CACHE_NAME(v))]
    /\ UNCHANGED <<hashVars, copyVars, cacheStorage, deployed, swFetch, fetchCount,
                   lastResponse>>

\* one caches.delete(key) of the activation is carried out
DeleteCompletes(v, key) ==
    /\ workers[v].state = "deleting"
    /\ key \in workers[v].deleting
    /\ cacheStorage' = [cacheStorage EXCEPT ![key] = NoCache]
    /\ workers' = [u \in Versions |->
                      IF u = v THEN [workers[u] EXCEPT !.deleting = @ \ {key}]
                      ELSE IF SERVICE_CACHE_NAME(u) = key
                           THEN [workers[u] EXCEPT !.attached = FALSE]
                           ELSE workers[u]]
    /\ UNCHANGED <<hashVars, copyVars, deployed, swFetch, fetchCount, lastResponse>>

\* Promise.all resolves: the work of the activate event is over
ActivateCompletes(v) ==
    /\ workers[v].state = "deleting"
    /\ workers[v].deleting = {}
    /\ workers' = [workers EXCEPT ![v].state = "activated"]
    /\ UNCHANGED <<hashVars, copyVars, cacheStorage, deployed, swFetch, fetchCount,
                   lastResponse>>

\* a fetch event reaches the active worker: caches.match is pending
FetchEvent(v, r) ==
    /\ workers[v].state = "activated"
    /\ swFetch = NoFetch
    /\ fetchCount < MaxFetches
    /\ fetchCount' = fetchCount + 1
    /\ swFetch' = [step |-> "match", worker |-> v, request |-> r]
    /\ UNCHANGED <<hashVars, copyVars, cacheStorage, workers, deployed, lastResponse>>

\* caches.match(request) over every cache of the storage
match(storage, r) == \E n \in keys(storage) : r \in storage[n].entries

\* caches.match resolves: response || fetch(event.request)
MatchResolves ==
    /\ swFetch.step = "match"
    /\ IF match(cacheStorage, swFetch.request)
       THEN /\ lastResponse' = [worker |-> swFetch.worker,
                                request |-> swFetch.request,
                                from |-> "cache", matched |-> TRUE]
            /\ swFetch' = NoFetch
       ELSE /\ swFetch' = [swFetch EXCEPT !.step = "network"]
            /\ UNCHANGED lastResponse
    /\ UNCHANGED <<hashVars, copyVars, cacheStorage, workers, deployed, fetchCount>>

\* fetch(event.request) resolves
NetworkResponds ==
    /\ swFetch.step = "network"
    /\ lastResponse' = [worker |-> swFetch.worker, request |-> swFetch.request,
                        from |-> "network", matched |-> FALSE]
    /\ swFetch' = NoFetch
    /\ UNCHANGED <<hashVars, copyVars, cacheStorage, workers, deployed, fetchCount>>

\* fetch(event.request) rejects: the event is answered with a network error
NetworkFails ==
    /\ swFetch.step = "network"
    /\ lastResponse' = [worker |-> swFetch.worker, request |-> swFetch.request,
                        from |-> "error", matched |-> FALSE]
    /\ swFetch' = NoFetch
    /\ UNCHANGED <<hashVars, copyVars, cacheStorage, workers, deployed, fetchCount>>

InitSw ==
    /\ mode = "fetch"
    /\ sriSet = [sri |-> Undefined, sriTag |-> Undefined, extension |-> Undefined]
    /\ errorAlert = hideAlert
    /\ resultCard = FALSE
    /\ sriPre = EmptyStr
    /\ sriTagPre = EmptyStr
    /\ ops = [o \in OpIds |-> IdleOp]
    /\ started = 0
    /\ running = 0
    /\ owner = NoOwner
    /\ lastEnd = NoEnd
    /\ fn = NoCall
    /\ copyIdle
    /\ secureContext = TRUE
    /\ swIdle

NextSw ==
    \/ \E v \in Versions : InstallStarts(v)
    \/ \E v \in Versions : AddAllResolves(v)
    \/ \E v \in Versions : AddAllRejects(v)
    \/ \E v \in Versions : ActivateStarts(v)
    \/ \E v \in Versions : KeysResolve(v)
    \/ \E v \in Versions, key \in CacheNames : DeleteCompletes(v, key)
    \/ \E v \in Versions : ActivateCompletes(v)
    \/ \E v \in Versions, r \in Requests : FetchEvent(v, r)
    \/ MatchResolves
    \/ NetworkResponds
    \/ NetworkFails

SpecSw == InitSw /\ [][NextSw]_vars

----------------------------------------------------------------------------
(* Claims about the generate-hash click handler *)

\* C1: a result of an operation that arrives after a later operation started
\* is discarded: the digest, the tag and the displayed result are only ever
\* those of the most recently started operation (or none).
C1_StaleResultDiscarded ==
    /\ owner.sri \in {0, started}
    /\ owner.sriTag \in {0, started}
    /\ owner.display \in {0, started}

\* C2: at most one hash operation is in flight: while one invocation is
\* suspended, no second invocation has begun.
C2_SingleInFlight ==
    Cardinality({o \in OpIds : ops[o].pc \in Suspended \cup {"reset"}}) <= 1

\* C3: an operation that ended in an error has committed no partial result:
\* no field of the Result Store holds a value that operation wrote.
C3_NoPartialResult ==
    \A o \in OpIds :
        ops[o].pc = "failed" =>
            /\ owner.sri # o
            /\ owner.sriTag # o
            /\ owner.extension # o

\* C4: after the first synchronous step of the handler (the reset and the
\* reading of the form) the Result Store is all undefined and the result card
\* is hidden, whatever the previous operation left.
C4_ResetAtStart ==
    \A o \in OpIds :
        ops[o].pc = "reset" =>
            /\ sriSet.sri = Undefined
            /\ sriSet.sriTag = Undefined
            /\ sriSet.extension = Undefined
            /\ ~resultCard

\* C4 witness: an operation has just reset the store after an earlier one
\* had shown its result and another value had been displayed.
C4_Witness ==
    \E o, p \in OpIds :
        /\ ops[o].pc = "reset"
        /\ ops[p].pc = "shown"
        /\ sriTagPre # EmptyStr

\* C5: the tag of the Result Store is defined only while its extension is a
\* key of EXT_MASTER, and a digest that resolves while the extension is not
\* such a key ends in an error and writes no tag and displays none.
C5_TagOnlyForKnownKind ==
    /\ [](sriSet.sriTag # Undefined => sriSet.extension \in DOMAIN EXT_MASTER)
    /\ [][\A o \in OpIds :
            (/\ ops[o].pc = "digest"
             /\ ops'[o].pc \in Ended
             /\ sriSet.extension \notin DOMAIN EXT_MASTER)
            => (/\ ops'[o].pc = "failed"
                /\ sriSet'.sriTag = sriSet.sriTag
                /\ sriTagPre' = sriTagPre
                /\ resultCard' = resultCard)]_vars

\* C5 witness: a digest resolved while the store held no extension (a later
\* click had reset it) and makeHtmlTag threw, next to a tag that is defined.
C5_Witness ==
    /\ lastEnd.errMsg = <<"Unknown extension: ", "undefined">>
    /\ sriSet.sri # Undefined
    /\ sriSet.sriTag = Undefined

\* C6: the content fetch is issued only by an operation started in fetch mode
\* whose validateURL returned isValid true and whose probe returned readable
\* true; an operation whose probe returned readable false shows the guidance
\* message, switches the mode to upload and ends without a content request.
C6_FetchOnlyAfterValidProbe ==
    /\ [](\A o \in OpIds :
            /\ ops[o].pc \in {"fetch", "body"} =>
                   /\ ops[o].startMode = "fetch"
                   /\ ops[o].validate = validateURL(ops[o].url).ret
                   /\ ops[o].validate.isValid
                   /\ ops[o].proveRes.readable
            /\ "CONTENT" \in {ops[o].reqs[i] : i \in DOMAIN ops[o].reqs} =>
                   /\ ops[o].startMode = "fetch"
                   /\ ops[o].proveRes.readable)
    /\ []("CONTENT" \in {lastEnd.reqs[i] : i \in DOMAIN lastEnd.reqs} =>
              lastEnd.startMode = "fetch" /\ lastEnd.readable)
    /\ [][\A o \in OpIds :
            (/\ ops[o].pc \in {"probeHead", "probeGet"}
             /\ ops'[o].pc \in Ended
             /\ ~lastEnd'.readable)
            => (/\ ops'[o].pc = "failed"
                /\ lastEnd'.op = o
                /\ lastEnd'.errMsg = Msg_Guidance
                /\ errorAlert' = showAlert(Msg_Guidance)
                /\ mode' = "upload"
                /\ lastEnd'.reqs = <<"HEAD", "GET">>)]_vars

\* C6 witness: an operation whose probe failed twice has ended with the
\* guidance message, in upload mode, having issued only the two probes.
C6_Witness ==
    /\ lastEnd.op # 0
    /\ ops[lastEnd.op].pc = "failed"
    /\ lastEnd.startMode = "fetch"
    /\ ~lastEnd.readable
    /\ lastEnd.errMsg = Msg_Guidance
    /\ errorAlert = showAlert(Msg_Guidance)
    /\ mode = "upload"
    /\ lastEnd.reqs = <<"HEAD", "GET">>

\* C7: an operation started in upload mode with a selected file of zero bytes
\* is rejected with the input error before anything is read or digested, even
\* when validateFile accepts the file's name.
C7_ZeroByteRejected ==
    [][\A o \in OpIds :
        (/\ ops[o].pc = "reset"
         /\ ops'[o].pc # "reset"
         /\ mode = "upload"
         /\ ops[o].file.present
         /\ ops[o].file.size = 0)
        => (/\ ops'[o].pc = "failed"
            /\ lastEnd'.op = o
            /\ lastEnd'.errMsg = Msg_FileRequired
            /\ errorAlert' = showAlert(Msg_FileRequired)
            /\ sriSet' = sriSet
            /\ ~resultCard')]_vars

\* C7 witness: an operation started in upload mode has rejected a zero-byte
\* file whose name validateFile accepts.
C7_Witness ==
    /\ lastEnd.pc = "failed"
    /\ lastEnd.startMode = "upload"
    /\ lastEnd.errMsg = Msg_FileRequired
    /\ errorAlert = showAlert(Msg_FileRequired)
    /\ lastEnd.file.present
    /\ lastEnd.file.size = 0
    /\ validateFile(lastEnd.file).isValid

----------------------------------------------------------------------------
(* Claims about the extension resolver and the validators *)

\* the allow-list the specification states
SpecAllowList == {Str_js, Str_css, Str_wasm}

\* C8: the allow-list is exactly {js, css, wasm}: validateURL (for an http or
\* https URL) and validateFile (for a file with a non-empty name) accept an
\* input if and only if its resolved extension is js, css or wasm, and each
\* of the three has a tag template.
C8_AllowListExact ==
    /\ (fn.call = "validateURL" /\ fn.in.parses
            /\ fn.in.protocol \in {"http:", "https:"}) =>
           /\ fn.out.ret.isValid <=> getExtensionURL(fn.in) \in SpecAllowList
           /\ fn.out.ret.isValid => fn.out.ret.extension = getExtensionURL(fn.in)
           /\ getExtensionURL(fn.in) \in SpecAllowList =>
                  getExtensionURL(fn.in) \in DOMAIN EXT_MASTER
    /\ (fn.call = "validateFile" /\ fn.in.present /\ fn.in.name # EmptyStr) =>
           /\ fn.out.isValid <=> getExtensionStr(fn.in.name) \in SpecAllowList
           /\ fn.out.isValid => fn.out.extension = getExtensionStr(fn.in.name)
           /\ getExtensionStr(fn.in.name) \in SpecAllowList =>
                  getExtensionStr(fn.in.name) \in DOMAIN EXT_MASTER

\* C9: validateURL never throws; for an input that does not parse or whose
\* scheme is neither http nor https the verdict is invalid with no extension;
\* for every input the extension is set if and only if the verdict is valid,
\* and then it is in the allow-list.
C9_ValidateURLVerdict ==
    fn.call = "validateURL" =>
        /\ ~fn.out.threw
        /\ (~fn.in.parses \/ fn.in.protocol \notin {"http:", "https:"}) =>
               fn.out.ret = [isValid |-> FALSE, extension |-> Undefined]
        /\ fn.out.ret.extension # Undefined <=> fn.out.ret.isValid
        /\ fn.out.ret.isValid => fn.out.ret.extension \in ALLOWED_EXTENSIONS

\* C9 witness: validateURL has returned for a string that does not parse
\* although it ends in an allowed extension.
C9_Witness ==
    /\ fn.call = "validateURL"
    /\ ~fn.in.parses
    /\ fn.in.pathname = <<"/", "a", ".", "j", "s">>
    /\ fn.out.ret = [isValid |-> FALSE, extension |-> Undefined]

\* a name that carries an extension: a dot followed by something
hasExtension(v) == truthy(v) /\ includes(v, ".") /\ splitPop(v, ".") # EmptyStr

\* C10: for a URL whose last path segment is non-empty and has no dot,
\* whenever at least one of the query keys file and filename carries a name
\* with an extension, getExtension returns the lower-cased extension of the
\* first such key and not the empty string; when neither carries one, it
\* returns the empty string.
C10_QueryKeyExtension ==
    (/\ fn.call = "getExtension"
     /\ fn.kind = "url"
     /\ truthy(splitPop(fn.in.pathname, "/"))
     /\ ~includes(splitPop(fn.in.pathname, "/"), "."))
    => IF hasExtension(fn.in.file)
       THEN fn.out = toLowerCase(splitPop(fn.in.file, "."))
       ELSE IF hasExtension(fn.in.filename)
       THEN fn.out = toLowerCase(splitPop(fn.in.filename, "."))
       ELSE fn.out = EmptyStr

\* C11: for a URL, getExtension reads the query only when the last path
\* segment is non-empty and has no dot: an empty last segment gives the empty
\* string, and a last segment with a dot gives the lower-cased text after its
\* final dot, whatever the keys file and filename hold.
C11_PathBeforeQuery ==
    (fn.call = "getExtension" /\ fn.kind = "url") =>
        LET last == splitPop(fn.in.pathname, "/")
        IN  /\ last = EmptyStr => fn.out = EmptyStr
            /\ includes(last, ".") => fn.out = toLowerCase(splitPop(last, "."))

\* C11 witness: getExtension has returned the path's extension for a URL whose
\* query names a file with another extension.
C11_Witness ==
    /\ fn.call = "getExtension"
    /\ fn.kind = "url"
    /\ fn.in.pathname = <<"/", "d", "/", "a", ".", "t", "x", "t">>
    /\ fn.in.file = <<"l", "i", "b", ".", "j", "s">>
    /\ fn.out = <<"t", "x", "t">>

\* C12: for a file name, getExtension returns the lower-cased text after the
\* final dot (empty after a bare final dot) and the empty string when the name
\* has no dot; a name ending in a dot and an allow-listed extension in any
\* letter case gives that extension in lower case.
C12_FileNameExtension ==
    (fn.call = "getExtension" /\ fn.kind = "file") =>
        LET name == fn.in.name
            dots == {i \in DOMAIN name : name[i] = "."}
        IN  /\ dots = {} => fn.out = EmptyStr
            /\ \A k \in dots :
                   (\A j \in dots : j <= k) =>
                       /\ Len(fn.out) = Len(name) - k
                       /\ \A i \in DOMAIN fn.out : fn.out[i] = LowerChar(name[k + i])
            /\ \A e \in SpecAllowList :
                   (/\ Len(name) > Len(e)
                    /\ name[Len(name) - Len(e)] = "."
                    /\ toLowerCase(SubSeq(name, Len(name) - Len(e) + 1, Len(name))) = e)
                   => fn.out = e

\* C12 witness: getExtension has returned js for a name with several dots
\* that ends in .JS.
C12_Witness ==
    /\ fn.call = "getExtension"
    /\ fn.kind = "file"
    /\ fn.in.name = <<"a", ".", ".", "J", "S">>
    /\ fn.out = Str_js

\* the requests of probeCorsReadable in r (an invocation, or the record of the
\* one that returned last) have been answered, so that the probe has returned
probeReturned(r) ==
    /\ r.reqs # <<>>
    /\ r.reqs[1] = "HEAD"
    /\ r.net # <<>>
    /\ r.net[1].threw => Len(r.net) >= 2

\* what the request that decided the probe met
probeDecider(r) == IF r.net[1].threw THEN r.net[2] ELSE r.net[1]

ProbeContract(r) ==
    /\ (Len(r.reqs) >= 2 /\ r.reqs[2] = "GET") => r.net[1].threw
    /\ probeReturned(r) =>
          /\ ~r.proveRes.readable <=> (r.net[1].threw /\ r.net[2].threw)
          /\ ~r.proveRes.readable =>
                /\ r.proveRes.reason = r.net[2].message
                /\ r.pc = "failed"
                /\ r.errMsg = Msg_Guidance
          /\ r.proveRes.readable =>
                /\ r.proveRes.status = probeDecider(r).status
                /\ r.proveRes.contentType = probeDecider(r).contentType

\* C13: probeCorsReadable never throws: it returns readable: false, with the
\* message of the error as reason, exactly when the HEAD and the GET both threw
\* (and the handler then goes on to its guidance); when either request is
\* answered, with whatever status, it returns readable: true with the status
\* and the content-type of that response; and the GET is never issued when the
\* HEAD was answered.
C13_ProbeVerdict ==
    /\ \A o \in OpIds : ProbeContract(ops[o])
    /\ ProbeContract(lastEnd)

\* C13 witness: an invocation is past a probe whose HEAD was answered 405 and
\* was given readable: true, status 405, with no GET issued; and the one that
\* returned last was given readable: false after two thrown requests.
C13_Witness ==
    /\ \E o \in OpIds :
          /\ ops[o].pc = "fetch"
          /\ ops[o].reqs = <<"HEAD", "CONTENT">>
          /\ ops[o].net = <<Response(405)>>
          /\ ops[o].proveRes.readable
          /\ ops[o].proveRes.status = 405
    /\ lastEnd.reqs = <<"HEAD", "GET">>
    /\ lastEnd.net = <<Thrown(Msg_FetchThrew), Thrown(Msg_FetchThrew)>>
    /\ ~lastEnd.proveRes.readable
    /\ lastEnd.proveRes.reason = Msg_FetchThrew

RetryContract(r) ==
    (probeReturned(r) /\ (r.net[1].threw \/ r.net[1].status = 405)) =>
        /\ Len(r.reqs) >= 2
        /\ r.reqs[2] = "GET"
        /\ r.proveRes.readable => r.proveRes.status = r.net[2].status

\* C14: probeCorsReadable retries with a GET whenever the HEAD fails, by a
\* thrown error or by the server rejecting the method (status 405): in both
\* cases a GET follows and the verdict is the one of the GET.
C14_RetryOnRejectedHead ==
    /\ \A o \in OpIds : RetryContract(ops[o])
    /\ RetryContract(lastEnd)

RetryOnThrowContract(r) ==
    (r.reqs # <<>> /\ r.reqs[1] = "HEAD" /\ r.net # <<>>) =>
        IF r.net[1].threw
        THEN /\ Len(r.reqs) >= 2
             /\ r.reqs[2] = "GET"
             /\ (Len(r.net) >= 2 /\ ~r.net[2].threw) =>
                   /\ r.proveRes.readable
                   /\ r.proveRes.status = r.net[2].status
        ELSE /\ "GET" \notin {r.reqs[i] : i \in DOMAIN r.reqs}
             /\ r.proveRes.readable
             /\ r.proveRes.status = r.net[1].status

\* C14, amended: probeCorsReadable retries with a GET exactly when the HEAD
\* request throws, and then takes its verdict from the GET; a HEAD that is
\* answered, be it with status 405, is the verdict (readable: true with that
\* status) and no GET follows.
C14_RetryOnlyOnThrow ==
    /\ \A o \in OpIds : RetryOnThrowContract(ops[o])
    /\ RetryOnThrowContract(lastEnd)

\* C14 witness: one invocation is past a probe whose HEAD threw and whose GET
\* was answered, another past a probe whose HEAD was answered 405.
C14_Witness ==
    \E a, b \in OpIds :
        /\ ops[a].reqs = <<"HEAD", "GET", "CONTENT">>
        /\ ops[a].net = <<Thrown(Msg_FetchThrew), Response(200)>>
        /\ ops[a].proveRes.status = 200
        /\ ops[b].reqs = <<"HEAD", "CONTENT">>
        /\ ops[b].net = <<Response(405)>>
        /\ ops[b].proveRes.readable
        /\ ops[b].proveRes.status = 405

\* the content request of r, when it has been answered, met a status in 2xx
contentAnswered2xx(r) ==
    /\ r.reqs # <<>>
    /\ r.reqs[Len(r.reqs)] = "CONTENT"
    /\ Len(r.net) = Len(r.reqs)
    /\ ~r.net[Len(r.net)].threw
    /\ r.net[Len(r.net)].status \in 200..299

\* C15: fetchContent returns the bytes of the response exactly when its
\* status is in 2xx; any other status throws an error whose message holds the
\* status and its text, the calling invocation shows that message as the
\* alert and ends, and it never awaits a digest nor shows a result.
C15_FetchStatus ==
    /\ [][\A o \in OpIds :
            (ops[o].pc = "fetch" /\ ops'[o].pc # "fetch") =>
                LET after == IF ops'[o].pc \in Ended THEN lastEnd' ELSE ops'[o]
                    res == after.net[Len(after.net)]
                IN  ~res.threw =>
                        IF res.status \in 200..299
                        THEN /\ ops'[o].pc = "body"
                             /\ UNCHANGED <<sriSet, errorAlert, resultCard>>
                        ELSE /\ ops'[o].pc = "failed"
                             /\ lastEnd'.op = o
                             /\ lastEnd'.errMsg = <<"Fetch failed: ",
                                                    ToString(res.status), " - ",
                                                    statusText(res.status)>>
                             /\ errorAlert' = showAlert(lastEnd'.errMsg)
                             /\ UNCHANGED <<sriSet, owner, resultCard, sriPre,
                                            sriTagPre>>]_vars
    /\ [][\A o \in OpIds :
            /\ ops[o].pc = "failed" => ops'[o].pc = "failed"
            /\ (ops[o].pc = "body" /\ ops'[o].pc = "digest") =>
                   ops'[o].resBuffer = ops[o].url.content]_vars
    /\ [](\A o \in OpIds :
            (ops[o].pc \in {"body", "digest"} /\ ops[o].url # Url_blank) =>
                contentAnswered2xx(ops[o]))
    /\ []((lastEnd.pc = "shown" /\ lastEnd.startMode = "fetch"
            /\ "CONTENT" \in {lastEnd.reqs[i] : i \in DOMAIN lastEnd.reqs}) =>
               contentAnswered2xx(lastEnd))

\* C15 witness: the invocation that returned last had its content request
\* answered 404, and its message is the alert shown, with no result shown.
C15_Witness ==
    /\ lastEnd.op # 0
    /\ lastEnd.reqs = <<"HEAD", "CONTENT">>
    /\ lastEnd.net = <<Response(200), Response(404)>>
    /\ lastEnd.errMsg = <<"Fetch failed: ", "404", " - ", "Not Found">>
    /\ errorAlert = showAlert(lastEnd.errMsg)
    /\ ~resultCard
    /\ ops[lastEnd.op].pc = "failed"

\* C16: for a recognized kind makeHtmlTag returns the template of the kind
\* with {{source}} replaced by the source as it is and {{sri}} by the digest
\* as it is, also for a source that holds the text {{sri}} or a replacement
\* pattern such as $&; for js, https://cdn.example/lib.js and sha384-ABC123
\* that is the script tag of the example.
C16_TagVerbatim ==
    fn.call = "makeHtmlTag" =>
        LET tpl == EXT_MASTER[fn.in.extension].tag
        IN  /\ ~fn.out.threw
            /\ fn.out.value = <<tpl[1]>> \o fn.in.source \o <<tpl[3]>> \o fn.in.sri
                                \o <<tpl[5]>>
            /\ (/\ fn.in.extension = Str_js
                /\ fn.in.source = <<"https://cdn.example/lib.js">>
                /\ fn.in.sri = <<"sha384-ABC123">>) =>
                   Join(fn.out.value) =
                       "<script src=\"https://cdn.example/lib.js\" integrity=\"sha384-ABC123\" crossorigin=\"anonymous\"></script>"

\* C17: for every buffer and every identifier SHA-256, SHA-384 or SHA-512 in
\* any letter case sriFromArrayBuffer returns sha256-, sha384- or sha512-
\* (lower case, the bits being those of the identifier) followed by the
\* base64 of the digest under that algorithm.
C17_SriPrefix ==
    fn.call = "sriFromArrayBuffer" =>
        LET bits == SubSeq(fn.in.algo, 5, 7)
        IN  /\ bits \in {<<"2", "5", "6">>, <<"3", "8", "4">>, <<"5", "1", "2">>}
            /\ Len(fn.out) = 8
            /\ SubSeq(fn.out, 1, 7) = <<"s", "h", "a">> \o bits \o <<"-">>
            /\ fn.out[8] = "base64(" \o Join(<<"s", "h", "a", "-">> \o bits) \o ","
                               \o fn.in.buf \o ")"

\* C17 witness: sriFromArrayBuffer has been applied with the identifier
\* sha-384 in lower case and has returned a string starting with sha384-.
C17_Witness ==
    /\ fn.call = "sriFromArrayBuffer"
    /\ fn.in.algo = <<"s", "h", "a", "-", "3", "8", "4">>
    /\ fn.in.buf = "b1"
    /\ SubSeq(fn.out, 1, 7) = <<"s", "h", "a", "3", "8", "4", "-">>

\* C18: the bytes an invocation reads come from the input it validated: it
\* reads a file only when it started in upload mode and the file passed the
\* zero-size check and validateFile, and it fetches a URL only when it started
\* in fetch mode and the URL passed validateURL and the probe; a change of mode
\* while the invocation is suspended at its probe changes nothing to that.
C18_ReadsValidatedInput ==
    \A o \in OpIds :
        /\ ops[o].pc = "read" =>
              /\ ops[o].startMode = "upload"
              /\ ops[o].file.present
              /\ ops[o].file.size # 0
              /\ ops[o].validate = validateFile(ops[o].file)
              /\ ops[o].validate.isValid
        /\ ops[o].pc \in {"fetch", "body"} =>
              /\ ops[o].startMode = "fetch"
              /\ ops[o].validate = validateURL(ops[o].url).ret
              /\ ops[o].validate.isValid
              /\ ops[o].proveRes.readable
        /\ ops[o].pc = "digest" =>
              ops[o].src = IF ops[o].startMode = "fetch" THEN ops[o].url.text
                           ELSE ops[o].file.name

\* C19: a tag written to the store has the template of the extension that was
\* validated for the source it embeds, and the extension, the digest and the
\* tag of the store are always those of one invocation: a stored tag never
\* puts the source and digest of one invocation into the template of the
\* extension another one validated.
C19_TagOfOwnExtension ==
    /\ [](sriSet.sriTag # Undefined =>
              /\ owner.sri = owner.sriTag
              /\ owner.extension = owner.sriTag)
    /\ [][\A o \in OpIds :
            (ops[o].pc = "digest" /\ ops'[o].pc = "shown") =>
                /\ ops[o].src = IF ops[o].startMode = "fetch" THEN ops[o].url.text
                                 ELSE ops[o].file.name
                /\ sriSet'.sriTag = makeHtmlTag(ops[o].src, sriSet'.sri,
                                                ops[o].validate.extension).value]_vars

\* the value of the integrity attribute of a tag: what stands between
\* integrity=" and the closing part of the template
integrityOf(tag) ==
    LET idx == {i \in DOMAIN tag : tag[i] = "\" integrity=\""}
    IN  IF idx = {} THEN Undefined
        ELSE LET i == CHOOSE k \in idx : \A j \in idx : k <= j
             IN  SubSeq(tag, i + 1, Len(tag) - 1)

\* C20: under any interleaving of operations and resets, when sriSet.sriTag
\* is defined sriSet.sri is defined too and the integrity value embedded in
\* the tag is sriSet.sri.
C20_TagAgreesWithDigest ==
    sriSet.sriTag # Undefined =>
        /\ sriSet.sri # Undefined
        /\ integrityOf(sriSet.sriTag) = sriSet.sri

\* C21: the error alert and the result card are never shown together, and
\* what is shown is the outcome of the invocation started last: a shown
\* result was displayed by it, and an alert is shown only when it failed.
C21_AlertXorCard ==
    /\ ~(errorAlert.shown /\ resultCard)
    /\ resultCard => owner.display = started
    /\ errorAlert.shown => (started # 0 /\ ops[started].pc = "failed")

\* the button b has no clipboard write pending and no timer set
copySettled(b) ==
    /\ copyWrites[b] = 0
    /\ \A i \in DOMAIN copyTimers : copyTimers[i].attribute # b

\* C22: after any clicks on a copy button, two clicks before the first
\* clipboard write resolves included, once every pending write is over and
\* every timer has fired the button is enabled and shows its original label.
C22_ButtonRestored ==
    \A b \in CopyButtons :
        copySettled(b) =>
            /\ ~copyBtn[b].disabled
            /\ copyBtn[b].html.label = "original"

\* the fetch listener: when caches.match resolves the event is answered from
\* the cache if an entry of some cache matches, and the network is asked
\* only if none does
FetchFromCacheFirst ==
    [][(swFetch.step = "match" /\ swFetch'.step # "match") =>
          IF \E n \in CacheNames : /\ cacheStorage[n].present
                                    /\ swFetch.request \in cacheStorage[n].entries
          THEN /\ swFetch'.step = "none"
               /\ lastResponse'.from = "cache"
               /\ lastResponse'.request = swFetch.request
          ELSE /\ swFetch'.step = "network"
               /\ lastResponse' = lastResponse]_swVars

\* no activating worker deletes the cache that has its own name
OwnCacheKept ==
    [][\A v \in Versions :
          (/\ workers[v].state \in {"keys", "deleting"}
           /\ cacheStorage[SERVICE_CACHE_NAME(v)].present) =>
              cacheStorage'[SERVICE_CACHE_NAME(v)].present]_swVars

\* C23: when the work of the activate event of a worker is over the cache
\* storage holds no cache with another name than its SERVICE_CACHE_NAME;
\* the activation never deletes the cache of that name; and a fetch event is
\* answered from the cache whenever an entry matches, from the network only
\* when none does.
C23_CacheVersioning ==
    /\ [][\A v \in Versions :
            (workers[v].state = "deleting" /\ workers'[v].state = "activated") =>
                keys(cacheStorage') \subseteq {SERVICE_CACHE_NAME(v)}]_swVars
    /\ OwnCacheKept
    /\ FetchFromCacheFirst

\* C23, amended: when the work of the activate event of a worker is over
\* every cache that caches.keys() listed under another name has been
\* deleted (a cache opened afterwards by the installation of a newer worker
\* is still there); the activation never deletes the cache of its own name;
\* and a fetch event is answered from the cache whenever an entry matches,
\* from the network only when none does.
C23_ListedCachesDeleted ==
    /\ [][\A v \in Versions :
            (workers[v].state = "deleting" /\ workers'[v].state = "activated") =>
                /\ (keys(cacheStorage') \cap workers[v].keyList)
                       \subseteq {SERVICE_CACHE_NAME(v)}
                /\ \A n \in keys(cacheStorage') \ workers[v].keyList :
                       \E u \in Versions : u > v /\ n = SERVICE_CACHE_NAME(u)]_swVars
    /\ OwnCacheKept
    /\ FetchFromCacheFirst

\* C23 witness: the second worker is activated, its activation listed and
\* deleted the cache of the first, its own cache and the cache opened
\* meanwhile by the third are in the storage, and a fetch event was answered
\* from the cache.
C23_Witness ==
    /\ workers[2].state = "activated"
    /\ workers[2].keyList = {SERVICE_CACHE_NAME(1), SERVICE_CACHE_NAME(2)}
    /\ keys(cacheStorage) = {SERVICE_CACHE_NAME(2), SERVICE_CACHE_NAME(3)}
    /\ lastResponse.from = "cache"

====
